---- MODULE Spec2Model ----
(***************************************************************************)
(* Model of evoaug/augment.py: the seven randomized batch augmentations     *)
(* RandomDeletion, RandomInsertion, RandomTranslocation, RandomInversion,   *)
(* RandomMutation, RandomRC and RandomNoise.                                *)
(*                                                                         *)
(* A batch of shape (N, A, L) is a sequence of N examples; an example is a  *)
(* sequence of A rows (the alphabet axis, dim 0 of x[i]); a row is a        *)
(* sequence of L numbers (the length axis, dim 1 of x[i]).  Indices are     *)
(* 1-based here and 0-based in the source; every draw (delete_ind,          *)
(* insert_ind, ...) is kept 0-based, as the source draws it.                *)
(*                                                                         *)
(* One action models one whole __call__.  The values drawn by torch.randint,*)
(* torch.rand, multinomial and torch.normal are chosen with \E.  A call that*)
(* raises ends with status = "error" and no output batch.                   *)
(*                                                                         *)
(* x0 is the batch given to the first primitive, x the input of the current *)
(* call, y its output, op the configuration and the draws of the call, step *)
(* the number of outputs fed to a next primitive, and valid records that    *)
(* every primitive called so far had a valid configuration.                 *)
(*                                                                         *)
(* torch.normal draws one real deviate z per entry, independently, and the *)
(* reals are not enumerated: a deviate stays a symbol.  The entry of x at  *)
(* (i, a, l) is x[i][a][l] + c1 * z1 + ... + ck * zk, where <<c1, ..., ck>>  *)
(* is xdev[i][a][l] and z1, ..., zk are real deviates of that entry alone,  *)
(* one for each RandomNoise the entry went through; likewise y and ydev.   *)
(* An entry with no deviate (xdev[i][a][l] = <<>>) is the number x[i][a][l].*)
(***************************************************************************)
EXTENDS Integers, Sequences, FiniteSets, TLC

VARIABLES x0, x, xdev, y, ydev, status, op, step, valid

vars == <<x0, x, xdev, y, ydev, status, op, step, valid>>

\* ------------------------------------------------------------------ bounds

\* Largest sequence length L of an input batch.
MaxL == 3
\* Largest value of a configured min/max bound (the smallest is -1).
MaxBound == 2
\* Largest value of shift_min and shift_max (the smallest is -1).
MaxShift == 4
\* Number of times a pipeline feeds an output to the next primitive.
MaxFeeds == 1
\* Largest number N * L of sequence positions of an input batch of SpecBatch.
MaxCells == 4
\* Alphabet size A of the input batches.
A == 2

\* The batch sizes N of the input batches of SpecBatch.
BatchSizes == {1, 2}

\* The values a configured min or max bound takes: valid ones and -1.
Params == (-1)..MaxBound

\* The values shift_min and shift_max take: shifts shorter and longer than
\* the sequences, and -1.
ShiftParams == (-1)..MaxShift

\* mutate_frac and rc_prob values, as <<numerator, denominator>>.
Fracs == {<<0, 1>>, <<1, 10>>, <<3, 8>>, <<3, 4>>, <<1, 1>>}

\* ------------------------------------------------------- tensors and slices

Min2(a, b) == IF a < b THEN a ELSE b
Max2(a, b) == IF a > b THEN a ELSE b

\* Python's normalisation of a slice bound i for a sequence of length n.
PyIndex(i, n) == IF i < 0 THEN Max2(i + n, 0) ELSE Min2(i, n)

\* s[start:stop] for a Python sequence s (0-based, stop exclusive).
PySlice(s, start, stop) ==
    LET i == PyIndex(start, Len(s))
        j == PyIndex(stop, Len(s))
    IN  IF j <= i THEN <<>> ELSE SubSeq(s, i + 1, j)

\* Number of rows (alphabet axis) and of columns (length axis) of an example.
Rows(e) == Len(e)
Width(e) == Len(e[1])

\* e[:, start:stop]
Cols(e, start, stop) == [a \in 1..Rows(e) |-> PySlice(e[a], start, stop)]
\* e[:, start:]
ColsFrom(e, start) == [a \in 1..Rows(e) |-> PySlice(e[a], start, Len(e[a]))]
\* e[:, :stop]
ColsTo(e, stop) == [a \in 1..Rows(e) |-> PySlice(e[a], 0, stop)]

\* torch.cat([p, q], -1) of two pieces with the same number of rows.
Cat2(p, q) == [a \in 1..Rows(p) |-> p[a] \o q[a]]

RECURSIVE Cat(_)
\* torch.cat(pieces, -1): concatenation along the length axis.
Cat(pieces) ==
    IF Len(pieces) = 1 THEN pieces[1]
    ELSE Cat2(pieces[1], Cat(Tail(pieces)))

Reverse(s) == [l \in 1..Len(s) |-> s[Len(s) + 1 - l]]

\* a[idx].transpose(0,1) with a = torch.eye(n): the one-hot encoding, as an
\* example of n rows, of the symbols idx (each in 1..n).
OneHot(idx, n) ==
    [a \in 1..n |-> [l \in 1..Len(idx) |-> IF idx[l] = a THEN 1 ELSE 0]]

\* The results p.multinomial(k, replacement=True) can give for one example,
\* one-hot encoded: every sequence of k symbols (k >= 1).
Fragments(n, k) == {OneHot(idx, n) : idx \in [1..k -> 1..n]}

\* The deviates of the entries of an example e of plain numbers (an input
\* example, a drawn one-hot fragment): none.
NoDeviates(e) == [a \in 1..Rows(e) |-> [l \in 1..Len(e[a]) |-> <<>>]]

\* torch.randint(low, high, ...): the values one draw can take.
RandInt(low, high) == low..(high - 1)

\* torch.stack(x_aug) succeeds only on examples of one shape.
Stackable(outs) == \A i \in 1..Len(outs) : Width(outs[i]) = Width(outs[1])

\* A configuration the specification calls valid for a batch of length L:
\* 0 <= min <= max <= L for the length-editing primitives, 0 <= min <= max
\* for the shift, a fraction or probability in [0, 1], a standard deviation
\* >= 0.
ValidConfig(cfg, L) ==
    CASE cfg.name \in {"RandomDeletion", "RandomInsertion", "RandomInversion"} ->
            0 <= cfg.lo /\ cfg.lo <= cfg.hi /\ cfg.hi <= L
      [] cfg.name = "RandomTranslocation" -> 0 <= cfg.lo /\ cfg.lo <= cfg.hi
      [] cfg.name = "RandomMutation" -> 0 <= cfg.frac[1] /\ cfg.frac[1] <= cfg.frac[2]
      [] cfg.name = "RandomRC" -> 0 <= cfg.prob[1] /\ cfg.prob[1] <= cfg.prob[2]
      [] cfg.name = "RandomNoise" -> cfg.std >= 0
      [] OTHER -> TRUE

\* ------------------------------------------------------------ RandomDeletion

\* PadBeginIndex with the division rounded up instead of down.
PadBeginIndexCeil(delete_len) == (delete_len + 1) \div 2

\* pad_begin_index = torch.div(delete_len, 2, rounding_mode='floor')
PadBeginIndex(delete_len) == delete_len \div 2

\* pad_end_index = delete_len - pad_begin_index
PadEndIndex(delete_len) == delete_len - PadBeginIndex(delete_len)

\* DeleteInds bounded by the sequence length instead of L - delete_max.
DeleteIndsByLength(L, delete_max) == RandInt(0, L + 1)

\* delete_inds = torch.randint(L - self.delete_max + 1, (N,))
DeleteInds(L, delete_max) == RandInt(0, L - delete_max + 1)

\* The body of the loop of RandomDeletion.__call__ for one example.
DeletionExample(seq, pad, delete_len, delete_ind, delete_max) ==
    Cat(<< ColsTo(pad, PadBeginIndex(delete_len)),
           ColsTo(seq, delete_ind),
           ColsFrom(seq, delete_ind + delete_len),
           ColsFrom(pad, delete_max - PadEndIndex(delete_len)) >>)

\* The conditions under which RandomDeletion.__call__ raises before its loop:
\* multinomial(delete_max) needs delete_max > 0, randint(min, max + 1) needs
\* min < max + 1, randint(L - max + 1) needs L - max + 1 > 0.
DeletionRaises(L, delete_min, delete_max) ==
    \/ delete_max <= 0
    \/ delete_min >= delete_max + 1
    \/ L - delete_max + 1 <= 0

RandomDeletion ==
    /\ status = "ready"
    /\ \E delete_min \in Params, delete_max \in Params :
         LET N == Len(x)
             L == Width(x[1])
             cfg == [name |-> "RandomDeletion", lo |-> delete_min, hi |-> delete_max]
         IN  IF DeletionRaises(L, delete_min, delete_max)
             THEN /\ status' = "error"
                  /\ y' = <<>>
                  /\ ydev' = <<>>
                  /\ op' = [cfg |-> cfg, draws |-> <<>>]
             ELSE \E padding \in [1..N -> Fragments(Rows(x[1]), delete_max)],
                     delete_lens \in [1..N -> RandInt(delete_min, delete_max + 1)],
                     delete_inds \in [1..N -> DeleteInds(L, delete_max)] :
                    LET x_aug == [i \in 1..N |->
                                    DeletionExample(x[i], padding[i], delete_lens[i],
                                                    delete_inds[i], delete_max)]
                        dev_aug == [i \in 1..N |->
                                      DeletionExample(xdev[i], NoDeviates(padding[i]),
                                                      delete_lens[i], delete_inds[i],
                                                      delete_max)]
                    IN  /\ status' = IF Stackable(x_aug) THEN "ok" ELSE "error"
                        /\ y' = IF Stackable(x_aug) THEN x_aug ELSE <<>>
                        /\ ydev' = IF Stackable(x_aug) THEN dev_aug ELSE <<>>
                        /\ op' = [cfg |-> cfg,
                                  draws |-> [i \in 1..N |->
                                               [len |-> delete_lens[i],
                                                ind |-> delete_inds[i],
                                                frag |-> padding[i]]]]
    /\ valid' = (valid /\ ValidConfig(op'.cfg, Width(x[1])))
    /\ UNCHANGED <<x, x0, xdev, step>>

\* ----------------------------------------------------------- RandomInsertion

\* InsertInds with the upper end L included.
InsertIndsInclusive(L) == RandInt(0, L + 1)

\* insert_inds = torch.randint(L, (N,))
InsertInds(L) == RandInt(0, L)

\* insert_beginning_len = torch.div((self.insert_max - insert_len), 2, rounding_mode='floor')
InsertBeginningLen(insert_max, insert_len) == (insert_max - insert_len) \div 2

\* insert_end_len = self.insert_max - insert_len - insert_beginning_len
InsertEndLen(insert_max, insert_len) ==
    insert_max - insert_len - InsertBeginningLen(insert_max, insert_len)

\* The body of the loop of RandomInsertion.__call__ for one example.
InsertionExample(seq, insertion, insert_len, insert_ind, insert_max) ==
    LET b == InsertBeginningLen(insert_max, insert_len)
    IN  Cat(<< ColsTo(insertion, b),
               ColsTo(seq, insert_ind),
               Cols(insertion, b, b + insert_len),
               ColsFrom(seq, insert_ind),
               Cols(insertion, b + insert_len, insert_max) >>)

\* RandomInsertion.__call__ raises before its loop when multinomial(insert_max)
\* has insert_max <= 0, randint(min, max + 1) has min >= max + 1, or
\* randint(L) has L <= 0.
InsertionRaises(L, insert_min, insert_max) ==
    \/ insert_max <= 0
    \/ insert_min >= insert_max + 1
    \/ L <= 0

RandomInsertion ==
    /\ status = "ready"
    /\ \E insert_min \in Params, insert_max \in Params :
         LET N == Len(x)
             L == Width(x[1])
             cfg == [name |-> "RandomInsertion", lo |-> insert_min, hi |-> insert_max]
         IN  IF InsertionRaises(L, insert_min, insert_max)
             THEN /\ status' = "error"
                  /\ y' = <<>>
                  /\ ydev' = <<>>
                  /\ op' = [cfg |-> cfg, draws |-> <<>>]
             ELSE \E insertions \in [1..N -> Fragments(Rows(x[1]), insert_max)],
                     insert_lens \in [1..N -> RandInt(insert_min, insert_max + 1)],
                     insert_inds \in [1..N -> InsertInds(L)] :
                    LET x_aug == [i \in 1..N |->
                                    InsertionExample(x[i], insertions[i], insert_lens[i],
                                                     insert_inds[i], insert_max)]
                        dev_aug == [i \in 1..N |->
                                      InsertionExample(xdev[i], NoDeviates(insertions[i]),
                                                       insert_lens[i], insert_inds[i],
                                                       insert_max)]
                    IN  /\ status' = IF Stackable(x_aug) THEN "ok" ELSE "error"
                        /\ y' = IF Stackable(x_aug) THEN x_aug ELSE <<>>
                        /\ ydev' = IF Stackable(x_aug) THEN dev_aug ELSE <<>>
                        /\ op' = [cfg |-> cfg,
                                  draws |-> [i \in 1..N |->
                                               [len |-> insert_lens[i],
                                                ind |-> insert_inds[i],
                                                frag |-> insertions[i]]]]
    /\ valid' = (valid /\ ValidConfig(op'.cfg, Width(x[1])))
    /\ UNCHANGED <<x, x0, xdev, step>>

\* ------------------------------------------------------- RandomTranslocation

\* Roll without the wrap-around: an index past an end is clamped to that end.
RollClamped(e, shift) ==
    [a \in 1..Rows(e) |->
        [l \in 1..Len(e[a]) |-> e[a][Max2(1, Min2(Len(e[a]), l - shift))]]]

\* torch.roll(e, shift, -1): the element at index i moves to (i + shift) mod L.
Roll(e, shift) ==
    [a \in 1..Rows(e) |->
        [l \in 1..Len(e[a]) |-> e[a][((l - 1 - shift) % Len(e[a])) + 1]]]

\* shifts[ind_neg] = -1 * shifts[ind_neg]
SignedShift(shift, neg) == IF neg THEN (-1) * shift ELSE shift

\* torch.randint(shift_min, shift_max + 1) needs shift_min < shift_max + 1.
TranslocationRaises(shift_min, shift_max) == shift_min >= shift_max + 1

RandomTranslocation ==
    /\ status = "ready"
    /\ \E shift_min \in ShiftParams, shift_max \in ShiftParams :
         LET N == Len(x)
             cfg == [name |-> "RandomTranslocation", lo |-> shift_min, hi |-> shift_max]
         IN  IF TranslocationRaises(shift_min, shift_max)
             THEN /\ status' = "error"
                  /\ y' = <<>>
                  /\ ydev' = <<>>
                  /\ op' = [cfg |-> cfg, draws |-> <<>>]
             ELSE \E shifts \in [1..N -> RandInt(shift_min, shift_max + 1)],
                     ind_neg \in [1..N -> BOOLEAN] :
                    /\ status' = "ok"
                    /\ y' = [i \in 1..N |-> Roll(x[i], SignedShift(shifts[i], ind_neg[i]))]
                    /\ ydev' = [i \in 1..N |->
                                  Roll(xdev[i], SignedShift(shifts[i], ind_neg[i]))]
                    /\ op' = [cfg |-> cfg,
                              draws |-> [i \in 1..N |->
                                           [shift |-> SignedShift(shifts[i], ind_neg[i])]]]
    /\ valid' = (valid /\ ValidConfig(op'.cfg, Width(x[1])))
    /\ UNCHANGED <<x, x0, xdev, step>>

\* ----------------------------------------------------------- RandomInversion

\* Flip reversing the length axis only.
FlipLengthOnly(e) == [a \in 1..Rows(e) |-> Reverse(e[a])]

\* torch.flip(e, dims=[0,1]): both the alphabet axis and the length axis reversed.
Flip(e) == [a \in 1..Rows(e) |-> Reverse(e[Rows(e) + 1 - a])]

\* inversion_inds = torch.randint(L - self.invert_max + 1, (N,))
InversionInds(L, invert_max) == RandInt(0, L - invert_max + 1)

\* The body of the loop of RandomInversion.__call__ for one example.
InversionExample(seq, inversion_len, inversion_ind) ==
    Cat(<< ColsTo(seq, inversion_ind),
           Flip(Cols(seq, inversion_ind, inversion_ind + inversion_len)),
           ColsFrom(seq, inversion_ind + inversion_len) >>)

\* randint(min, max + 1) needs min < max + 1, randint(L - max + 1) needs
\* L - max + 1 > 0.
InversionRaises(L, invert_min, invert_max) ==
    \/ invert_min >= invert_max + 1
    \/ L - invert_max + 1 <= 0

RandomInversion ==
    /\ status = "ready"
    /\ \E invert_min \in Params, invert_max \in Params :
         LET N == Len(x)
             L == Width(x[1])
             cfg == [name |-> "RandomInversion", lo |-> invert_min, hi |-> invert_max]
         IN  IF InversionRaises(L, invert_min, invert_max)
             THEN /\ status' = "error"
                  /\ y' = <<>>
                  /\ ydev' = <<>>
                  /\ op' = [cfg |-> cfg, draws |-> <<>>]
             ELSE \E inversion_lens \in [1..N -> RandInt(invert_min, invert_max + 1)],
                     inversion_inds \in [1..N -> InversionInds(L, invert_max)] :
                    LET x_aug == [i \in 1..N |->
                                    InversionExample(x[i], inversion_lens[i],
                                                     inversion_inds[i])]
                        dev_aug == [i \in 1..N |->
                                      InversionExample(xdev[i], inversion_lens[i],
                                                       inversion_inds[i])]
                    IN  /\ status' = IF Stackable(x_aug) THEN "ok" ELSE "error"
                        /\ y' = IF Stackable(x_aug) THEN x_aug ELSE <<>>
                        /\ ydev' = IF Stackable(x_aug) THEN dev_aug ELSE <<>>
                        /\ op' = [cfg |-> cfg,
                                  draws |-> [i \in 1..N |->
                                               [len |-> inversion_lens[i],
                                                ind |-> inversion_inds[i]]]]
    /\ valid' = (valid /\ ValidConfig(op'.cfg, Width(x[1])))
    /\ UNCHANGED <<x, x0, xdev, step>>

\* ------------------------------------------------------------ RandomMutation

\* Python's round(n / d) for n >= 0, d > 0: to the nearest integer, a tie to
\* the even one.
RoundHalfEven(n, d) ==
    LET q == n \div d
        r == n % d
    IN  IF 2 * r < d THEN q
        ELSE IF 2 * r > d THEN q + 1
        ELSE IF q % 2 = 0 THEN q ELSE q + 1

\* num_mutations = round(self.mutate_frac / 0.75 * L), with mutate_frac =
\* frac[1] / frac[2] and 0.75 = 3 / 4.
NumMutations(frac, L) == RoundHalfEven(4 * frac[1] * L, 3 * frac[2])

\* torch.argsort(torch.rand(N,L))[:, :num_mutations] for one example: the first
\* num_mutations entries of a permutation of 0..L-1 (all of it when
\* num_mutations > L).
MutationInds(L, num_mutations) ==
    LET k == Min2(num_mutations, L)
    IN  {s \in [1..k -> 0..(L - 1)] : \A i, j \in 1..k : i # j => s[i] # s[j]}

\* x_aug[i,:,mutation_inds[i]] = mutations[i]
MutationExample(seq, inds, mutation) ==
    [a \in 1..Rows(seq) |->
        [l \in 1..Len(seq[a]) |->
            IF \E j \in 1..Len(inds) : inds[j] = l - 1
            THEN mutation[a][CHOOSE j \in 1..Len(inds) : inds[j] = l - 1]
            ELSE seq[a][l]]]

\* multinomial(num_mutations) needs num_mutations > 0; the indexed assignment
\* needs as many columns in mutations[i] (num_mutations) as indices
\* (min(num_mutations, L)).
MutationRaises(L, num_mutations) ==
    \/ num_mutations <= 0
    \/ num_mutations > L

RandomMutation ==
    /\ status = "ready"
    /\ \E mutate_frac \in Fracs :
         LET N == Len(x)
             L == Width(x[1])
             num_mutations == NumMutations(mutate_frac, L)
             cfg == [name |-> "RandomMutation", frac |-> mutate_frac,
                     num |-> num_mutations]
         IN  IF MutationRaises(L, num_mutations)
             THEN /\ status' = "error"
                  /\ y' = <<>>
                  /\ ydev' = <<>>
                  /\ op' = [cfg |-> cfg, draws |-> <<>>]
             ELSE \E mutation_inds \in [1..N -> MutationInds(L, num_mutations)],
                     mutations \in [1..N -> Fragments(Rows(x[1]), num_mutations)] :
                    /\ status' = "ok"
                    /\ y' = [i \in 1..N |->
                               MutationExample(x[i], mutation_inds[i], mutations[i])]
                    /\ ydev' = [i \in 1..N |->
                                  MutationExample(xdev[i], mutation_inds[i],
                                                  NoDeviates(mutations[i]))]
                    /\ op' = [cfg |-> cfg,
                              draws |-> [i \in 1..N |->
                                           [inds |-> mutation_inds[i],
                                            frag |-> mutations[i]]]]
    /\ valid' = (valid /\ ValidConfig(op'.cfg, Width(x[1])))
    /\ UNCHANGED <<x, x0, xdev, step>>

\* ------------------------------------------------------------------ RandomRC

\* ind_rc = torch.rand(N) < self.rc_prob, for one example: torch.rand draws
\* from [0, 1), so the test can be true only when rc_prob > 0 and false only
\* when rc_prob < 1.
IndRc(rc_prob) ==
    {b \in BOOLEAN : /\ b => rc_prob[1] > 0
                     /\ ~b => rc_prob[1] < rc_prob[2]}

\* FlipRC reversing the length axis only.
FlipRCLengthOnly(e) == [a \in 1..Rows(e) |-> Reverse(e[a])]

\* torch.flip(x_aug[ind_rc], dims=[1,2]) for one selected example.
FlipRC(e) == [a \in 1..Rows(e) |-> Reverse(e[Rows(e) + 1 - a])]

\* x_aug[ind_rc] = torch.flip(x_aug[ind_rc], dims=[1,2])
RCBatch(batch, ind_rc) ==
    [i \in 1..Len(batch) |-> IF ind_rc[i] THEN FlipRC(batch[i]) ELSE batch[i]]

RandomRC ==
    /\ status = "ready"
    /\ \E rc_prob \in Fracs :
         \E ind_rc \in [1..Len(x) -> IndRc(rc_prob)] :
            /\ status' = "ok"
            /\ y' = RCBatch(x, ind_rc)
            /\ ydev' = RCBatch(xdev, ind_rc)
            /\ op' = [cfg |-> [name |-> "RandomRC", prob |-> rc_prob],
                      draws |-> [i \in 1..Len(x) |-> [rc |-> ind_rc[i]]]]
    /\ valid' = (valid /\ ValidConfig(op'.cfg, Width(x[1])))
    /\ UNCHANGED <<x, x0, xdev, step>>

\* --------------------------------------------------------------- RandomNoise

\* noise_mean and noise_std.
NoiseMeans == {0, 1}
NoiseStds == {-1, 0, 1, 2}

\* torch.normal(mean, std, x.shape): a tensor of the shape of x whose every
\* entry is mean + std * z for a real deviate z of its own.  An entry is
\* kept as <<mean, std>>, the deviate being left a symbol.
Normal(noise_mean, noise_std, batch) ==
    [i \in 1..Len(batch) |->
        [a \in 1..Rows(batch[i]) |->
            [l \in 1..Len(batch[i][a]) |-> <<noise_mean, noise_std>>]]]

\* x + noise, elementwise: the numbers of the sums.
AddNoise(batch, noise) ==
    [i \in 1..Len(batch) |->
        [a \in 1..Rows(batch[i]) |->
            [l \in 1..Len(batch[i][a]) |-> batch[i][a][l] + noise[i][a][l][1]]]]

\* x + noise, elementwise: the deviates of the sums, each entry gaining the
\* term noise_std * z of its noise entry.
AddDeviates(dev, noise) ==
    [i \in 1..Len(dev) |->
        [a \in 1..Rows(dev[i]) |->
            [l \in 1..Len(dev[i][a]) |-> Append(dev[i][a][l], noise[i][a][l][2])]]]

\* torch.normal needs std >= 0.
NoiseRaises(noise_std) == noise_std < 0

RandomNoise ==
    /\ status = "ready"
    /\ \E noise_mean \in NoiseMeans, noise_std \in NoiseStds :
         LET cfg == [name |-> "RandomNoise", mean |-> noise_mean, std |-> noise_std]
             noise == Normal(noise_mean, noise_std, x)
         IN  IF NoiseRaises(noise_std)
             THEN /\ status' = "error"
                  /\ y' = <<>>
                  /\ ydev' = <<>>
                  /\ op' = [cfg |-> cfg, draws |-> <<>>]
             ELSE /\ status' = "ok"
                  /\ y' = AddNoise(x, noise)
                  /\ ydev' = AddDeviates(xdev, noise)
                  /\ op' = [cfg |-> cfg, draws |-> noise]
    /\ valid' = (valid /\ ValidConfig(op'.cfg, Width(x[1])))
    /\ UNCHANGED <<x, x0, xdev, step>>

\* ------------------------------------------------------------------ pipeline

NoOp == [cfg |-> [name |-> "none"], draws |-> <<>>]

\* The output of one primitive becomes the input of the next one.
Feed ==
    /\ status = "ok"
    /\ step < MaxFeeds
    /\ x' = y
    /\ xdev' = ydev
    /\ y' = <<>>
    /\ ydev' = <<>>
    /\ status' = "ready"
    /\ op' = NoOp
    /\ step' = step + 1
    /\ UNCHANGED <<x0, valid>>

\* ----------------------------------------------------------------- machine

\* Every one-hot batch of shape (N, A, L).
BatchesOfShape(N, L) == [1..N -> Fragments(A, L)]

\* One call of one primitive on a batch of one example.
Init ==
    /\ x \in UNION {BatchesOfShape(1, L) : L \in 1..MaxL}
    /\ x0 = x
    /\ xdev = [i \in 1..Len(x) |-> NoDeviates(x[i])]
    /\ y = <<>>
    /\ ydev = <<>>
    /\ status = "ready"
    /\ op = NoOp
    /\ step = 0
    /\ valid = TRUE

Next ==
    \/ RandomDeletion
    \/ RandomInsertion
    \/ RandomTranslocation
    \/ RandomInversion
    \/ RandomMutation
    \/ RandomRC
    \/ RandomNoise

Spec == Init /\ [][Next]_vars

\* One call of one primitive on a batch of one or several examples.
InitBatch ==
    /\ x \in UNION {BatchesOfShape(N, L) :
                        <<N, L>> \in {s \in BatchSizes \X (1..MaxL) : s[1] * s[2] <= MaxCells}}
    /\ x0 = x
    /\ xdev = [i \in 1..Len(x) |-> NoDeviates(x[i])]
    /\ y = <<>>
    /\ ydev = <<>>
    /\ status = "ready"
    /\ op = NoOp
    /\ step = 0
    /\ valid = TRUE

SpecBatch == InitBatch /\ [][Next]_vars

\* A pipeline: primitives applied one after the other, each to the output of
\* the previous one, starting from a batch of shape (1, A, 2).
InitPipeline ==
    /\ x \in BatchesOfShape(1, 2)
    /\ x0 = x
    /\ xdev = [i \in 1..Len(x) |-> NoDeviates(x[i])]
    /\ y = <<>>
    /\ ydev = <<>>
    /\ status = "ready"
    /\ op = NoOp
    /\ step = 0
    /\ valid = TRUE

NextPipeline ==
    \/ Next
    \/ Feed

SpecPipeline == InitPipeline /\ [][NextPipeline]_vars

\* ==================================================================== claims

\* The last call was a call of the primitive `name`.
Called(name) == op.cfg.name = name

\* The call returned a batch.
Returned == status = "ok"

\* Two batches have the same shape (N, A, L).
SameShape(b1, b2) ==
    /\ Len(b1) = Len(b2)
    /\ \A i \in 1..Len(b1) : Rows(b1[i]) = Rows(b2[i]) /\ Width(b1[i]) = Width(b2[i])

\* Column l (1-based) of an example, and the number of columns equal to c.
Column(e, l) == [a \in 1..Rows(e) |-> e[a][l]]
ColumnCount(e, c) == Cardinality({l \in 1..Width(e) : Column(e, l) = c})

\* The example e without the columns of the interval [s, s + n).
Kept(e, s, n) ==
    [a \in 1..Rows(e) |-> SubSeq(e[a], 1, s) \o SubSeq(e[a], s + n + 1, Len(e[a]))]

\* The first f and the last b columns of a fragment.
FirstCols(frag, f) == [a \in 1..Rows(frag) |-> SubSeq(frag[a], 1, f)]
LastCols(frag, b) ==
    [a \in 1..Rows(frag) |-> SubSeq(frag[a], Len(frag[a]) - b + 1, Len(frag[a]))]

Abs(n) == IF n < 0 THEN 0 - n ELSE n

\* C1: every batch that a primitive called with a valid configuration
\* (0 <= min <= max <= L, a fraction or probability in [0, 1], a standard
\* deviation >= 0) returns for a batch of shape (N, A, L) has the shape
\* exactly (N, A, L).
C1_ShapeInvariance ==
    (Returned /\ ValidConfig(op.cfg, Width(x[1]))) => SameShape(y, x)

\* C2: a pipeline of MaxFeeds + 1 primitives with valid configurations, each
\* applied to the output of the previous one, ends with a batch of the shape
\* (N, A, L) of the batch the pipeline was given.
C2_PipelineShape ==
    (Returned /\ valid /\ step = MaxFeeds) => SameShape(y, x0)

\* C3, as claimed: for RandomDeletion, RandomInsertion and RandomInversion with
\* 0 <= min <= max <= L, every sampled start and length satisfy 0 <= start
\* and start + len <= L.
C3_IntervalWithinSequence ==
    (/\ Called("RandomDeletion") \/ Called("RandomInsertion") \/ Called("RandomInversion")
     /\ ValidConfig(op.cfg, Width(x[1]))
     /\ Returned)
        => \A i \in 1..Len(x) :
              /\ 0 <= op.draws[i].ind
              /\ op.draws[i].ind + op.draws[i].len <= Width(x[i])

\* C3, amended: with 0 <= min <= max <= L, RandomDeletion and RandomInversion
\* sample min <= len <= max and 0 <= start <= L - max, so that start + len <= L;
\* RandomInsertion samples min <= len <= max and 0 <= start <= L - 1 (start + len
\* may exceed L) and takes the inserted columns from the interval
\* [b, b + len) of its fragment, with 0 <= b and b + len <= insert_max.
C3_BoundSafety ==
    (/\ Called("RandomDeletion") \/ Called("RandomInsertion") \/ Called("RandomInversion")
     /\ ValidConfig(op.cfg, Width(x[1]))
     /\ Returned)
        => \A i \in 1..Len(x) :
              LET d == op.draws[i]
                  L == Width(x[i])
                  b == (op.cfg.hi - d.len) \div 2
              IN  /\ op.cfg.lo <= d.len /\ d.len <= op.cfg.hi
                  /\ 0 <= d.ind
                  /\ IF Called("RandomInsertion")
                     THEN /\ d.ind <= L - 1
                          /\ 0 <= b /\ b + d.len <= op.cfg.hi
                          /\ Width(d.frag) = op.cfg.hi
                     ELSE /\ d.ind <= L - op.cfg.hi
                          /\ d.ind + d.len <= L

\* C3 witness: a deletion of the maximum length that ends at the last position.
C3_Witness ==
    /\ Called("RandomDeletion") /\ Returned /\ ValidConfig(op.cfg, Width(x[1]))
    /\ op.draws[1].len = op.cfg.hi
    /\ op.cfg.hi >= 2
    /\ op.draws[1].ind >= 1
    /\ op.draws[1].ind + op.draws[1].len = Width(x[1])

\* C4: the rotation of RandomTranslocation by the signed shift s moves the
\* column at index i to index (i + s) mod L, rotating the output by -s restores
\* the input exactly, and the rotation keeps the length and the multiset of
\* columns, for every s (either sign, |s| >= L and s = 0 included).
C4_RollRoundTrip ==
    (Called("RandomTranslocation") /\ Returned)
        => \A i \in 1..Len(x) :
              LET s == op.draws[i].shift
                  L == Width(x[i])
              IN  /\ Roll(y[i], 0 - s) = x[i]
                  /\ Rows(y[i]) = Rows(x[i])
                  /\ Width(y[i]) = L
                  /\ \A l \in 1..L :
                        /\ Column(y[i], ((l - 1 + s) % L) + 1) = Column(x[i], l)
                        /\ ColumnCount(y[i], Column(x[i], l))
                              = ColumnCount(x[i], Column(x[i], l))

\* C4 witness: a negative shift longer than the sequence that changes it.
C4_Witness ==
    /\ Called("RandomTranslocation") /\ Returned
    /\ op.draws[1].shift < 0 - Width(x[1])
    /\ y[1] # x[1]

\* C5: RandomRC with rc_prob = 1 selects every example and reverses it on the
\* alphabet axis and on the length axis, and RandomRC(rc_prob = 1) applied to
\* its own output returns the input batch.
C5_RCInvolution ==
    (Called("RandomRC") /\ op.cfg.prob[1] = op.cfg.prob[2])
        => /\ Returned
           /\ SameShape(y, x)
           /\ \A i \in 1..Len(x) :
                 /\ op.draws[i].rc
                 /\ \A a \in 1..Rows(x[i]) : \A l \in 1..Width(x[i]) :
                       y[i][a][l] = x[i][Rows(x[i]) + 1 - a][Width(x[i]) + 1 - l]
           /\ \A ind_rc \in [1..Len(y) -> IndRc(op.cfg.prob)] : RCBatch(y, ind_rc) = x

\* C5 witness: a call with rc_prob = 1 whose output differs from its input.
C5_Witness ==
    /\ Called("RandomRC") /\ op.cfg.prob[1] = op.cfg.prob[2]
    /\ Returned
    /\ Width(x[1]) >= 2
    /\ y # x

\* C6: for every mutate_frac in [0, 1] and every L, RandomMutation returns a
\* batch in which exactly k = round(mutate_frac / 0.75 * L) pairwise distinct
\* positions of each example are overwritten with a one-hot symbol and every
\* other position is unchanged; L = 200, mutate_frac = 0.1 gives k = 27.
C6_MutationCount ==
    /\ NumMutations(<<1, 10>>, 200) = 27
    /\ Called("RandomMutation")
        => /\ Returned
           /\ \A i \in 1..Len(x) :
                 LET inds == op.draws[i].inds
                     L == Width(x[i])
                     k == Len(inds)
                 IN  /\ 2 * Abs(4 * op.cfg.frac[1] * L - 3 * op.cfg.frac[2] * k)
                            <= 3 * op.cfg.frac[2]
                     /\ \A p, q \in 1..k : p # q => inds[p] # inds[q]
                     /\ \A p \in 1..k :
                           /\ inds[p] \in 0..(L - 1)
                           /\ Column(y[i], inds[p] + 1) = Column(op.draws[i].frag, p)
                           /\ Cardinality({a \in 1..Rows(y[i]) : y[i][a][inds[p] + 1] = 1}) = 1
                     /\ \A l \in 1..L :
                           (\A p \in 1..k : inds[p] # l - 1)
                               => Column(y[i], l) = Column(x[i], l)

\* C7: a RandomDeletion, RandomInsertion or RandomInversion configured with
\* min > max, a negative bound, or a max larger than the sequence length L
\* ends in an error and returns no batch.
C7_InvalidConfigRejected ==
    (/\ Called("RandomDeletion") \/ Called("RandomInsertion") \/ Called("RandomInversion")
     /\ \/ op.cfg.lo > op.cfg.hi
        \/ op.cfg.lo < 0
        \/ op.cfg.hi < 0
        \/ op.cfg.hi > Width(x[1]))
        => status = "error"

\* C8, as claimed: the output of RandomDeletion is a front padding, the input
\* without the interval [start, start + len), and a back padding; the paddings
\* have len columns together, differ in length by at most one, and the front
\* padding is the longer one when len is odd.
C8_ExtraPaddingInFront ==
    (Called("RandomDeletion") /\ ValidConfig(op.cfg, Width(x[1])) /\ Returned)
        => \A i \in 1..Len(x) :
              LET d == op.draws[i]
              IN  \E f \in 0..d.len :
                     /\ y[i] = Cat(<< FirstCols(d.frag, f),
                                      Kept(x[i], d.ind, d.len),
                                      LastCols(d.frag, d.len - f) >>)
                     /\ Abs(f - (d.len - f)) <= 1
                     /\ f >= d.len - f

\* C8, amended: the output of RandomDeletion is a front padding, the input
\* without the interval [start, start + len), and a back padding; the paddings
\* have len columns together (the first floor(len / 2) and the last
\* len - floor(len / 2) columns of the random fragment), so the output has
\* length L, they differ in length by at most one, and the back padding is the
\* longer one when len is odd.
C8_ExtraPaddingAtBack ==
    (Called("RandomDeletion") /\ ValidConfig(op.cfg, Width(x[1])) /\ Returned)
        => \A i \in 1..Len(x) :
              LET d == op.draws[i]
              IN  /\ Width(y[i]) = Width(x[i])
                  /\ \E f \in 0..d.len :
                        /\ y[i] = Cat(<< FirstCols(d.frag, f),
                                         Kept(x[i], d.ind, d.len),
                                         LastCols(d.frag, d.len - f) >>)
                        /\ Abs(f - (d.len - f)) <= 1
                        /\ f <= d.len - f

\* C8 witness: a deletion of one interior column, whose single padding column
\* differs from the first input column.
C8_Witness ==
    /\ Called("RandomDeletion") /\ ValidConfig(op.cfg, Width(x[1])) /\ Returned
    /\ op.draws[1].len = 1
    /\ op.draws[1].ind = 1
    /\ Width(x[1]) >= 3
    /\ Column(y[1], Width(y[1])) = Column(op.draws[1].frag, Width(op.draws[1].frag))
    /\ Column(y[1], 1) = Column(x[1], 1)
    /\ Column(x[1], 1) # Column(op.draws[1].frag, 1)

\* C9, as claimed: the insertion index of RandomInsertion ranges over every
\* position of [0, L]: the values a call can draw are exactly 0..L.
C9_InsertIndexUpToL ==
    (Called("RandomInsertion") /\ Returned)
        => InsertInds(Width(x[1])) = 0..Width(x[1])

\* C9, amended: the insertion index of RandomInsertion ranges over [0, L - 1]:
\* an insertion can land before the first input position (index 0) but never
\* after the last one, and the values a call can draw are exactly 0..L-1.
C9_InsertIndexBelowL ==
    (Called("RandomInsertion") /\ Returned)
        => /\ InsertInds(Width(x[1])) = 0..(Width(x[1]) - 1)
           /\ \A i \in 1..Len(x) :
                 /\ op.draws[i].ind \in 0..(Width(x[i]) - 1)
                 /\ Width(x[i]) >= 1

\* C9 witness: an insertion of at least one column at the largest index, L - 1,
\* of a sequence of length L >= 2.
C9_Witness ==
    /\ Called("RandomInsertion") /\ Returned
    /\ Width(x[1]) >= 2
    /\ op.draws[1].ind = Width(x[1]) - 1
    /\ op.draws[1].len >= 1

\* C10: RandomInversion with start s and length n (0 <= min <= max <= L)
\* returns the input outside [s, s + n) and, inside, both axes reversed:
\* output[a][s + j] = input[A - 1 - a][s + n - 1 - j]; the same inversion applied
\* to the output restores the input, and n = 0 leaves the example unchanged.
C10_InversionReversesInterval ==
    (Called("RandomInversion") /\ ValidConfig(op.cfg, Width(x[1])) /\ Returned)
        => \A i \in 1..Len(x) :
              LET s == op.draws[i].ind
                  n == op.draws[i].len
                  L == Width(x[i])
                  R == Rows(x[i])
              IN  /\ Rows(y[i]) = R
                  /\ Width(y[i]) = L
                  /\ \A a \in 1..R : \A l \in 1..L :
                        y[i][a][l] = IF s + 1 <= l /\ l <= s + n
                                     THEN x[i][R + 1 - a][2 * s + n + 1 - l]
                                     ELSE x[i][a][l]
                  /\ InversionExample(y[i], n, s) = x[i]
                  /\ n = 0 => y[i] = x[i]

\* C10 witness: an inversion of at least two columns that changes the example.
C10_Witness ==
    /\ Called("RandomInversion") /\ ValidConfig(op.cfg, Width(x[1])) /\ Returned
    /\ op.draws[1].len >= 2
    /\ op.draws[1].ind >= 1
    /\ y[1] # x[1]

====
